---- MODULE Spec2Model ----
(***************************************************************************)
(* Model of mulike (src/main.rs): the handler get_list and the pagination  *)
(* loop get_captains, against an arbitrary upstream.                       *)
(*                                                                         *)
(* Strings are sequences of one-character strings, so that str::contains   *)
(* and join("\n") are computed, not assumed.  The text of a reqwest error  *)
(* is produced outside this repository and is kept as one opaque token.    *)
(***************************************************************************)
EXTENDS Integers, Sequences, FiniteSets, TLC

\* ------------------------------------------------------------ bounds ----

\* Largest data.info.page the simulated upstream reports (Spec).  The loop
\* of get_captains has no bound of its own: it ends when the upstream
\* reports a page below the requested one, which must happen at page
\* MaxCur + 1 at the latest.
MaxCur == 2

\* The same, for the two-request specification SpecPair.
MaxCurPair == 1

\* page_size query parameter (main.rs:156).
PageSize == 30

\* StatusCode::INTERNAL_SERVER_ERROR (main.rs:44) and the status axum gives
\* to Ok(String) (main.rs:130, 133).
InternalServerError == 500
StatusOk == 200

\* ------------------------------------------------------- input domain ----

NL == "\n"

alice == <<"a">>
Abe == <<"A", "b">>
bea == <<"b", "a">>

\* Option<T>
None == [some |-> FALSE]
Some(v) == [some |-> TRUE, val |-> v]

\* The values of the `username` query parameter a request may carry.
Filters ==
    { None, Some(<<>>), Some(<<"a">>), Some(<<"b">>), Some(<<"A", "b">>),
      Some(<<"a", "b">>) }

PairFilters == { None, Some(<<"a">>) }

\* A JSON document {"data": {"info": {"page": cur}, "list": l, "top3": t}};
\* DocNoTop3 is the same document without the "top3" key.
Doc(cur, l, t) == [page |-> cur, list |-> l, top3 |-> t]
DocNoTop3(cur, l) == [page |-> cur, list |-> l]

\* A body that is no Captain document (the "list" key is missing).
Garbage == [page |-> 0]

Lists == { <<>>, <<alice>>, <<Abe, alice>> }
Top3s == { <<>>, <<bea, alice>> }

Docs(maxCur, lists, top3s) ==
    { Doc(cur, l, t) : cur \in 0..maxCur, l \in lists, t \in top3s }
        \cup { DocNoTop3(cur, l) : cur \in 0..maxCur, l \in lists }

\* What one upstream call can come to: the request is not completed, or an
\* HTTP response with a status and a body arrives.
Transport == [kind |-> "transport"]
Http(status, body) == [kind |-> "http", status |-> status, body |-> body]

Failures ==
    { Transport, Http(500, Garbage), Http(404, Doc(1, <<alice>>, <<>>)),
      Http(200, Garbage) }

Outcomes ==
    Failures \cup { Http(200, d) : d \in Docs(MaxCur, Lists, Top3s) }

PairOutcomes ==
    { Transport }
        \cup { Http(200, d) : d \in Docs(MaxCurPair, { <<alice>> }, { <<>> }) }
        \cup { Http(200, Doc(cur, <<Abe>>, <<bea>>)) : cur \in 0..MaxCurPair }

\* ------------------------------------------------------------- state ----

VARIABLES
    pc,        \* per request: "idle", "send" (loop top), "wait" (call in flight), "done"
    filter,    \* per request: QueryUsername.username
    page,      \* per request: get_captains' `page`
    res,       \* per request: get_captains' `res`
    calls,     \* per request: the upstream calls issued so far, in order
    inflight,  \* per request: upstream calls issued and not yet answered
    log,       \* per request: the upstream outcomes received so far, in order
    ret,       \* per request: what get_captains returned, if it has
    http       \* per request: the HTTP response of get_list, if sent

vars == <<pc, filter, page, res, calls, inflight, log, ret, http>>

Req == DOMAIN pc

\* Result<T, E>
Ok(v) == [ok |-> TRUE, val |-> v]
Err(e) == [ok |-> FALSE, err |-> e]

Pending == [pending |-> TRUE]

\* ------------------------------------------------------ pure functions ----

\* reqwest's send().await? (main.rs:158-159) and error_for_status()?
\* (main.rs:160): the response, or the error that `?` returns.
SendAndCheck(outcome) ==
    IF outcome.kind = "transport" THEN Err([kind |-> "transport", code |-> 0])
    ELSE IF outcome.status >= 400 /\ outcome.status <= 599
    THEN Err([kind |-> "status", code |-> outcome.status])
    ELSE Ok(outcome.body)

\* Variant of DecodeCaptain with top3: Vec<CaptainEntry> (a required field).
DecodeCaptainTop3Required(body) ==
    IF {"page", "list", "top3"} \subseteq DOMAIN body
    THEN Ok([page |-> body.page, list |-> body.list, top3 |-> Some(body.top3)])
    ELSE Err([kind |-> "decode", code |-> 0])

\* resp.json::<Captain>().await? (main.rs:162) with the derived Deserialize of
\* Captain, CaptainData, CaptainDataInfo (main.rs:15-36): `list` and
\* `info.page` are required, an Option field that is missing is None (as is
\* one that is null, which the documents enumerated here do not use).
DecodeCaptain(body) ==
    IF {"page", "list"} \subseteq DOMAIN body
    THEN Ok([page |-> body.page,
             list |-> body.list,
             top3 |-> IF "top3" \in DOMAIN body THEN Some(body.top3) ELSE None])
    ELSE Err([kind |-> "decode", code |-> 0])

\* Variants of IsExhausted: <= for <, the page before, and stopping on an
\* empty list.
IsExhaustedLe(c, p) == c.page <= p
IsExhaustedLate(c, p) == c.page < p - 1
IsExhaustedOrEmpty(c, p) == c.page < p \/ c.list = <<>>

\* if c.data.info.page < page (main.rs:164)
IsExhausted(c, p) == c.page < p

\* Variant of Top3Contribution without the `page == 1` test.
Top3ContributionAnyPage(c, p) == IF c.top3.some THEN c.top3.val ELSE <<>>

\* if let Some(top3) = c.data.top3 && page == 1 { push each } (main.rs:168-174)
Top3Contribution(c, p) ==
    IF c.top3.some /\ p = 1 THEN c.top3.val ELSE <<>>

\* Variant of AppendPage with the two pushes in the other order.
AppendPageListFirst(acc, c, p) == acc \o c.list \o Top3Contribution(c, p)

\* main.rs:168-180: the top3 entries, then the entries of `list`, pushed in order
AppendPage(acc, c, p) == acc \o Top3Contribution(c, p) \o c.list

\* Variant of NextPage: page += 2.
NextPageSkip(p) == p + 2

\* page += 1 (main.rs:182); page is an i32 and stays below MaxCur + 2 here.
NextPage(p) == p + 1

\* Variant of Contains: starts_with for contains.
StartsWith(u, f) == Len(f) <= Len(u) /\ SubSeq(u, 1, Len(f)) = f

\* u.username.contains(&username) (main.rs:126)
Contains(u, f) ==
    \E i \in 0..(Len(u) - Len(f)) : SubSeq(u, i + 1, i + Len(f)) = f

\* .join("\n") (main.rs:130, 137)
RECURSIVE Join(_)
Join(names) ==
    IF names = <<>> THEN <<>>
    ELSE IF Len(names) = 1 THEN names[1]
    ELSE names[1] \o <<NL>> \o Join(Tail(names))

\* .into_iter().filter(|u| u.username.contains(&username)).map(|u| u.username)
\* (main.rs:124-128)
RECURSIVE FilterUsernames(_, _)
FilterUsernames(list, f) ==
    IF list = <<>> THEN <<>>
    ELSE IF Contains(list[1], f)
    THEN <<list[1]>> \o FilterUsernames(Tail(list), f)
    ELSE FilterUsernames(Tail(list), f)

\* format!("{}", self.0) (main.rs:44): the Display of the reqwest error.
Display(e) ==
    IF e.kind = "transport" THEN <<"error sending request">>
    ELSE IF e.kind = "decode" THEN <<"error decoding response body">>
    ELSE IF e.code < 500 THEN <<"HTTP status client error">>
    ELSE <<"HTTP status server error">>

\* Variant of IntoResponse with a fixed body for the error's text.
IntoResponseGeneric(e) ==
    [status |-> InternalServerError, body |-> <<"Internal Server Error">>]

\* AnyhowError::into_response (main.rs:41-46)
IntoResponse(e) == [status |-> InternalServerError, body |-> Display(e)]

\* get_list after get_captains has returned (main.rs:121-137)
Respond(r, f) ==
    IF ~r.ok THEN IntoResponse(r.err)
    ELSE IF f.some
    THEN [status |-> StatusOk, body |-> Join(FilterUsernames(r.val, f.val))]
    ELSE [status |-> StatusOk, body |-> Join(r.val)]

\* Variant of NewAccumulator: the accumulator starts from the one of a
\* request already running.
NewAccumulatorShared(r) ==
    IF \E q \in Req \ {r} : pc[q] # "idle"
    THEN res[CHOOSE q \in Req \ {r} : pc[q] # "idle"]
    ELSE <<>>

\* let mut res = vec![]; (main.rs:147)
NewAccumulator(r) == <<>>

\* One pass of the loop body after the response has arrived
\* (main.rs:158-182): the value get_captains returns, or Pending with the
\* new accumulator and page when the loop goes round.
LoopBody(acc, p, outcome) ==
    LET sent == SendAndCheck(outcome) IN
    IF ~sent.ok THEN [ret |-> Err(sent.err), res |-> acc, page |-> p]
    ELSE
        LET c == DecodeCaptain(sent.val) IN
        IF ~c.ok THEN [ret |-> Err(c.err), res |-> acc, page |-> p]
        ELSE IF IsExhausted(c.val, p) THEN [ret |-> Ok(acc), res |-> acc, page |-> p]
        ELSE [ret |-> Pending,
              res |-> AppendPage(acc, c.val, p),
              page |-> NextPage(p)]

\* ------------------------------------------------------------ actions ----

InitFor(reqs) ==
    /\ pc = [r \in reqs |-> "idle"]
    /\ filter = [r \in reqs |-> None]
    /\ page = [r \in reqs |-> 0]
    /\ res = [r \in reqs |-> <<>>]
    /\ calls = [r \in reqs |-> <<>>]
    /\ inflight = [r \in reqs |-> 0]
    /\ log = [r \in reqs |-> <<>>]
    /\ ret = [r \in reqs |-> Pending]
    /\ http = [r \in reqs |-> Pending]

\* A request arrives: get_list is entered with its query (main.rs:113-121)
\* and get_captains with page = 1 and an empty res (main.rs:145-147).
Start(r, f) ==
    /\ pc[r] = "idle"
    /\ pc' = [pc EXCEPT ![r] = "send"]
    /\ filter' = [filter EXCEPT ![r] = f]
    /\ page' = [page EXCEPT ![r] = 1]
    /\ res' = [res EXCEPT ![r] = NewAccumulator(r)]
    /\ UNCHANGED <<calls, inflight, log, ret, http>>

\* client.get(..).query(..).send() (main.rs:150-158): the call goes out and
\* the task is suspended at .await.
Send(r) ==
    /\ pc[r] = "send"
    /\ pc' = [pc EXCEPT ![r] = "wait"]
    /\ calls' = [calls EXCEPT ![r] = Append(@, [page |-> page[r], page_size |-> PageSize])]
    /\ inflight' = [inflight EXCEPT ![r] = @ + 1]
    /\ UNCHANGED <<filter, page, res, log, ret, http>>

\* The call's outcome arrives and the task runs to its next suspension
\* point: the next send, or the end of get_list (main.rs:159-183, 121-137).
Recv(r, outcome) ==
    /\ pc[r] = "wait"
    /\ LET step == LoopBody(res[r], page[r], outcome) IN
        /\ log' = [log EXCEPT ![r] = Append(@, outcome)]
        /\ inflight' = [inflight EXCEPT ![r] = @ - 1]
        /\ res' = [res EXCEPT ![r] = step.res]
        /\ page' = [page EXCEPT ![r] = step.page]
        /\ ret' = [ret EXCEPT ![r] = step.ret]
        /\ IF step.ret = Pending
           THEN /\ pc' = [pc EXCEPT ![r] = "send"]
                /\ UNCHANGED http
           ELSE /\ pc' = [pc EXCEPT ![r] = "done"]
                /\ http' = [http EXCEPT ![r] = Respond(step.ret, filter[r])]
    /\ UNCHANGED <<filter, calls>>

Init == InitFor({1})

Next ==
    \/ \E r \in Req, f \in Filters : Start(r, f)
    \/ \E r \in Req : Send(r)
    \/ \E r \in Req, o \in Outcomes : Recv(r, o)

Spec == Init /\ [][Next]_vars

\* Two requests served concurrently by the same process (main.rs:96-105).
InitPair == InitFor({1, 2})

NextPair ==
    \/ \E r \in Req, f \in PairFilters : Start(r, f)
    \/ \E r \in Req : Send(r)
    \/ \E r \in Req, o \in PairOutcomes : Recv(r, o)

SpecPair == InitPair /\ [][NextPair]_vars

\* ------------------------------------------------- reference notions ----

\* A call that succeeded, as the specification means it: a response with a
\* success status whose body is a Captain document.
Valid(o) ==
    /\ o.kind = "http"
    /\ o.status \in 200..299
    /\ {"page", "list"} \subseteq DOMAIN o.body

Fails(o) == ~Valid(o)

Cur(o) == o.body.page
ListOf(o) == o.body.list
Top3Of(o) == IF "top3" \in DOMAIN o.body THEN o.body.top3 ELSE <<>>

\* top3(page 1) ++ list(page 1) ++ ... ++ list(page n) of the responses l
RECURSIVE ExpectedUpTo(_, _)
ExpectedUpTo(l, n) ==
    IF n = 0 THEN <<>>
    ELSE IF n = 1 THEN Top3Of(l[1]) \o ListOf(l[1])
    ELSE ExpectedUpTo(l, n - 1) \o ListOf(l[n])

\* Responses 1..n each report a current page at or past the requested one
\* and carry a non-empty list.
PagesWithData(l, n) ==
    \A k \in 1..n : Valid(l[k]) /\ Cur(l[k]) >= k /\ ListOf(l[k]) # <<>>

Returned(r) == ret[r] # Pending
ReturnedOk(r) == Returned(r) /\ ret[r].ok

Last(s) == s[Len(s)]

\* f occurs in u as a contiguous run of characters
Occurs(f, u) ==
    \E i \in 1..(Len(u) + 1), j \in 0..Len(u) : SubSeq(u, i, j) = f

RECURSIVE Lines(_)
Lines(names) ==
    IF Len(names) = 0 THEN <<>>
    ELSE IF Len(names) = 1 THEN names[1]
    ELSE Lines(SubSeq(names, 1, Len(names) - 1)) \o <<NL>> \o names[Len(names)]

\* ------------------------------------------------------------- claims ----

\* C1: when the upstream answers pages 1..N (N >= 1) with currentPage >= the
\* requested page and a non-empty list, get_captains has not returned after
\* those N answers; when it then answers page N+1 with currentPage < N+1,
\* get_captains has returned Ok with the entries of pages 1..N only, after
\* exactly N+1 upstream calls.
C1_Termination ==
    \A r \in Req : \A n \in 1..Len(log[r]) :
        PagesWithData(log[r], n) =>
            /\ Len(log[r]) = n => ~Returned(r) /\ pc[r] \in {"send", "wait"}
            /\ (/\ Len(log[r]) > n
                /\ Valid(log[r][n + 1])
                /\ Cur(log[r][n + 1]) < n + 1)
               => /\ pc[r] = "done"
                  /\ ret[r] = Ok(ExpectedUpTo(log[r], n))
                  /\ Len(log[r]) = n + 1
                  /\ Len(calls[r]) = n + 1

C1_Witness ==
    \E r \in Req :
        /\ Len(log[r]) = 3
        /\ PagesWithData(log[r], 2)
        /\ ReturnedOk(r)
        /\ ListOf(log[r][3]) # <<>>
        /\ Len(calls[r]) = 3

\* C2: on success the returned list is top3(page 1) ++ list(page 1) ++
\* list(page 2) ++ ... ++ list(page N), in the upstream's order, nothing
\* dropped, reordered or de-duplicated.
C2_Concatenation ==
    \A r \in Req :
        ReturnedOk(r) => ret[r].val = ExpectedUpTo(log[r], Len(log[r]) - 1)

C2_Witness ==
    \E r \in Req :
        /\ ReturnedOk(r)
        /\ Len(log[r]) = 3
        /\ Top3Of(log[r][1]) = <<bea, alice>>
        /\ ListOf(log[r][1]) = <<Abe, alice>>
        /\ ListOf(log[r][2]) = <<alice>>
        /\ ret[r].val = <<bea, alice, Abe, alice, alice>>

\* C3: the answer to a requested page p >= 2 appends that page's regular
\* list and nothing else, whatever top3 it carries.
C3_Top3OnlyPage1 ==
    [][\A r \in Req :
          (pc[r] = "wait" /\ page[r] >= 2 /\ log'[r] # log[r]) =>
              \/ res'[r] = res[r]
              \/ /\ Valid(Last(log'[r]))
                 /\ res'[r] = res[r] \o ListOf(Last(log'[r]))]_vars

C3_Witness ==
    \E r \in Req :
        /\ Len(log[r]) >= 2
        /\ Valid(log[r][2])
        /\ Cur(log[r][2]) >= 2
        /\ Top3Of(log[r][2]) = <<bea, alice>>
        /\ ListOf(log[r][2]) = <<Abe, alice>>
        /\ page[r] = 3

\* The responses l1 and l2 come from upstreams that differ only in page 1,
\* whose top3 is absent in l1 and an empty sequence in l2.
DifferInTop3Only(l1, l2) ==
    /\ Len(l1) >= 1
    /\ Len(l2) >= 1
    /\ Valid(l1[1])
    /\ "top3" \notin DOMAIN l1[1].body
    /\ l2[1] = Http(l1[1].status, Doc(Cur(l1[1]), ListOf(l1[1]), <<>>))
    /\ \A k \in 2..(IF Len(l1) < Len(l2) THEN Len(l1) ELSE Len(l2)) : l1[k] = l2[k]

RECURSIVE ListsUpTo(_, _)
ListsUpTo(l, n) ==
    IF n = 0 THEN <<>> ELSE ListsUpTo(l, n - 1) \o ListOf(l[n])

\* C4: two requests whose upstreams differ only in that page 1's top3 is
\* absent for one and empty for the other make the same upstream calls and
\* return the same list, made of the regular per-page entries only.
C4_AbsentTop3IsEmpty ==
    \A r, q \in Req :
        (pc[r] = "done" /\ pc[q] = "done" /\ DifferInTop3Only(log[r], log[q])) =>
            /\ calls[r] = calls[q]
            /\ ret[r] = ret[q]
            /\ ret[r].ok => ret[r].val = ListsUpTo(log[r], Len(log[r]) - 1)

C4_Witness ==
    \E r, q \in Req :
        /\ pc[r] = "done"
        /\ pc[q] = "done"
        /\ DifferInTop3Only(log[r], log[q])
        /\ Len(log[r]) = 2
        /\ ReturnedOk(r)
        /\ ret[q].val = <<alice>>

C6_FilterSemantics ==
    \A r \in Req :
        ReturnedOk(r) =>
            /\ http[r] # Pending
            /\ http[r].status = 200
            /\ ~filter[r].some => http[r].body = Lines(ret[r].val)
            /\ filter[r].some =>
                 http[r].body =
                    Lines(SelectSeq(ret[r].val, LAMBDA u : Occurs(filter[r].val, u)))
            /\ filter[r] = Some(<<>>) => http[r].body = Lines(ret[r].val)
            /\ (/\ filter[r].some
                /\ \A i \in 1..Len(ret[r].val) : ~Occurs(filter[r].val, ret[r].val[i]))
               => http[r].body = <<>>

C6_Witness ==
    \E r \in Req :
        /\ ReturnedOk(r)
        /\ filter[r] = Some(<<"b">>)
        /\ ret[r].val = <<bea, alice, Abe, alice>>
        /\ http[r].body = <<"b", "a", NL, "A", "b">>

\* The pages the upstream returned before it signalled exhaustion: the
\* responses that report a current page at or past the requested one.
PagesReturned(l) ==
    Cardinality({ k \in 1..Len(l) : Valid(l[k]) /\ Cur(l[k]) >= k })

RECURSIVE EntryCount(_, _)
EntryCount(l, n) ==
    IF n = 0 THEN 0
    ELSE EntryCount(l, n - 1) + Len(ListOf(l[n]))
            + (IF n = 1 THEN Len(Top3Of(l[1])) ELSE 0)

\* C7 as stated: when get_captains returns successfully, the number of
\* upstream calls equals the number of pages the upstream returned before it
\* signalled exhaustion.
C7_Original ==
    \A r \in Req : ReturnedOk(r) => Len(calls[r]) = PagesReturned(log[r])

\* C7, amended: when get_captains returns successfully, the number of
\* upstream calls is one more than the number of pages the upstream returned
\* before it signalled exhaustion (the last call is the one that observes
\* exhaustion), and the result holds the entries of those pages and none of
\* the exhausted response.
C7_CallsArePagesPlusOne ==
    \A r \in Req :
        ReturnedOk(r) =>
            /\ Len(calls[r]) = PagesReturned(log[r]) + 1
            /\ Len(ret[r].val) = EntryCount(log[r], PagesReturned(log[r]))
            /\ \A k \in 1..PagesReturned(log[r]) : Cur(log[r][k]) >= k

C7_Witness ==
    \E r \in Req :
        /\ ReturnedOk(r)
        /\ PagesReturned(log[r]) = 2
        /\ Len(calls[r]) = 3
        /\ ListOf(log[r][3]) # <<>>
        /\ Top3Of(log[r][3]) # <<>>
        /\ Len(ret[r].val) = 3

\* C8: what an invocation holds and returns is a function of the upstream
\* responses it has observed: two invocations, run one after the other or
\* interleaved, that have observed the same responses have the same page
\* counter, the same accumulator and the same return value.
C8_FunctionOfResponses ==
    \A r, q \in Req :
        (pc[r] # "idle" /\ pc[q] # "idle" /\ log[r] = log[q]) =>
            /\ page[r] = page[q]
            /\ res[r] = res[q]
            /\ ret[r] = ret[q]

C8_Witness ==
    \E r, q \in Req :
        /\ r # q
        /\ log[r] = log[q]
        /\ Len(log[r]) = 2
        /\ ReturnedOk(r)
        /\ ReturnedOk(q)
        /\ ret[r].val = <<bea, Abe>>
        /\ filter[r] # filter[q]

\* C9: get_captains returns successfully exactly when the response to the
\* requested page p reports currentPage < p, and then returns what was
\* accumulated before that response; a response with currentPage >= p, even
\* with an empty list, is appended (top3 first on page 1) and the loop goes
\* on to request page p + 1.
C9_SoleTermination ==
    [][\A r \in Req :
          /\ (pc[r] = "wait" /\ log'[r] # log[r]) =>
                LET o == Last(log'[r])
                    p == page[r]
                IN  /\ (Returned(r)' /\ ret'[r].ok) =>
                            /\ Valid(o)
                            /\ Cur(o) < p
                            /\ ret'[r].val = res[r]
                            /\ ret'[r].val = ExpectedUpTo(log[r], p - 1)
                    /\ (Valid(o) /\ Cur(o) < p) => ret'[r] = Ok(res[r])
                    /\ (Valid(o) /\ Cur(o) >= p) =>
                            /\ ~Returned(r)'
                            /\ pc'[r] = "send"
                            /\ page'[r] = p + 1
                            /\ res'[r] = res[r]
                                  \o (IF p = 1 THEN Top3Of(o) ELSE <<>>)
                                  \o ListOf(o)
          /\ (pc[r] = "send" /\ pc'[r] = "wait") =>
                Last(calls'[r]).page = page[r]]_vars

C9_Witness ==
    \E r \in Req :
        /\ Len(log[r]) = 2
        /\ Valid(log[r][1])
        /\ Cur(log[r][1]) >= 1
        /\ ListOf(log[r][1]) = <<>>
        /\ Top3Of(log[r][1]) = <<>>
        /\ Valid(log[r][2])
        /\ ListOf(log[r][2]) = <<Abe, alice>>
        /\ ret[r] = Ok(<<>>)

\* C10: within one invocation the k-th upstream call requests page k with
\* page size 30, no page is requested twice, at most one call is in flight,
\* and a call is in flight only when every earlier response has been
\* processed and its entries appended.
C10_SequentialCalls ==
    \A r \in Req :
        /\ inflight[r] \in {0, 1}
        /\ Len(calls[r]) = Len(log[r]) + inflight[r]
        /\ \A k \in 1..Len(calls[r]) : calls[r][k] = [page |-> k, page_size |-> 30]
        /\ \A j, k \in 1..Len(calls[r]) : j # k => calls[r][j].page # calls[r][k].page
        /\ inflight[r] = 1 =>
              /\ pc[r] = "wait"
              /\ page[r] = Len(calls[r])
              /\ res[r] = ExpectedUpTo(log[r], Len(log[r]))
              /\ \A k \in 1..Len(log[r]) : Valid(log[r][k]) /\ Cur(log[r][k]) >= k

C10_Witness ==
    \E r \in Req :
        /\ Len(calls[r]) = 3
        /\ inflight[r] = 1
        /\ Len(res[r]) = 5

====
